---- MODULE Spec2Model ----
(***************************************************************************)
(* PII detection and redaction engine of soc-challenge.                    *)
(*                                                                         *)
(* PersonalInfoFinder / PersonalInfoHider are modelled from                *)
(* detector_full_harish_madhavan_j_u.py; the standalone detector and the   *)
(* value redactor of the legacy script sol1.2.py are modelled next to them *)
(* (PIIDetector / PIIRedactor).                                            *)
(*                                                                         *)
(* A Python str is a sequence of one-character strings.  A scalar value    *)
(* is a tagged record: None, an int, or a str.  Characters are ASCII.      *)
(***************************************************************************)
EXTENDS Integers, Sequences, FiniteSets, TLC

\* ------------------------------------------------------------------------
\* Bounds of the model
\* ------------------------------------------------------------------------
MaxFields == 3

\* ------------------------------------------------------------------------
\* Characters and Python string primitives
\* ------------------------------------------------------------------------
UpperSeq == <<"A", "B", "C", "D", "E", "F", "G", "H", "I", "J", "K", "L", "M", "N", "O", "P", "Q", "R", "S", "T", "U", "V", "W", "X", "Y", "Z">>
LowerSeq == <<"a", "b", "c", "d", "e", "f", "g", "h", "i", "j", "k", "l", "m", "n", "o", "p", "q", "r", "s", "t", "u", "v", "w", "x", "y", "z">>
DigitSeq == <<"0", "1", "2", "3", "4", "5", "6", "7", "8", "9">>

Range(s) == {s[i] : i \in 1..Len(s)}

UpperCase == Range(UpperSeq)
LowerCase == Range(LowerSeq)
Digits == Range(DigitSeq)
Letters == UpperCase \cup LowerCase
Whitespace == {" ", "\t", "\n"}
WordChars == Letters \cup Digits \cup {"_"}

Min(a, b) == IF a < b THEN a ELSE b
Max(a, b) == IF a > b THEN a ELSE b

\* c * n : a negative repeat count gives the empty string
Repeat(c, n) == [i \in 1..Max(n, 0) |-> c]

\* t[:k]
Prefix(t, k) == SubSeq(t, 1, Min(k, Len(t)))

\* t[-k:] for k > 0
Suffix(t, k) == SubSeq(t, Max(Len(t) - k, 0) + 1, Len(t))

\* str.strip()
Strip(t) ==
    LET keep == {i \in 1..Len(t) : t[i] \notin Whitespace}
    IN  IF keep = {} THEN << >>
        ELSE SubSeq(t, CHOOSE i \in keep : \A j \in keep : i <= j,
                       CHOOSE i \in keep : \A j \in keep : i >= j)

ToLower(c) ==
    IF c \in UpperCase
    THEN LowerSeq[CHOOSE i \in 1..Len(UpperSeq) : UpperSeq[i] = c]
    ELSE c

\* str.lower()
Lower(t) == [i \in 1..Len(t) |-> ToLower(t[i])]

\* positions of "@" in t
AtPositions(t) == {i \in 1..Len(t) : t[i] = "@"}

FirstAt(t) == CHOOSE i \in AtPositions(t) : \A j \in AtPositions(t) : i <= j

\* number of tokens of str.split(): maximal runs of non-whitespace
TokenCount(t) ==
    Cardinality({i \in 1..Len(t) :
        t[i] \notin Whitespace /\ (i = 1 \/ t[i - 1] \in Whitespace)})

\* decimal digits of a natural number
RECURSIVE DigitsOf(_)
DigitsOf(n) ==
    IF n < 10 THEN << DigitSeq[n + 1] >>
    ELSE Append(DigitsOf(n \div 10), DigitSeq[(n % 10) + 1])

\* ------------------------------------------------------------------------
\* Scalar values of a record (Dict[str, Any])
\* ------------------------------------------------------------------------
NoneV == [t |-> "none", s |-> << >>, n |-> 0]
StrV(s) == [t |-> "str", s |-> s, n |-> 0]
IntV(n) == [t |-> "int", s |-> << >>, n |-> n]
IndexError == [t |-> "raise", s |-> << >>, n |-> 0]

\* bool(value)
Truthy(v) ==
    CASE v.t = "none" -> FALSE
      [] v.t = "int"  -> v.n # 0
      [] OTHER        -> v.s # << >>

\* str(value)
Str(v) ==
    CASE v.t = "none" -> <<"N", "o", "n", "e">>
      [] v.t = "int"  -> DigitsOf(v.n)
      [] OTHER        -> v.s

\* ------------------------------------------------------------------------
\* PersonalInfoFinder.__init__ : patterns (used with fullmatch) and tables
\* ------------------------------------------------------------------------
\* ^\d{10}$
phone_re(t) == Len(t) = 10 /\ \A i \in 1..10 : t[i] \in Digits

\* ^\d{4}\s?\d{4}\s?\d{4}$
aadhar_re(t) ==
    \E a \in {0, 1}, b \in {0, 1} :
        /\ Len(t) = 12 + a + b
        /\ \A i \in 1..4 : t[i] \in Digits
        /\ a = 1 => t[5] \in Whitespace
        /\ \A i \in (5 + a)..(8 + a) : t[i] \in Digits
        /\ b = 1 => t[9 + a] \in Whitespace
        /\ \A i \in (9 + a + b)..(12 + a + b) : t[i] \in Digits

\* ^[A-Z]\d{7}$
passport_re(t) ==
    Len(t) = 8 /\ t[1] \in UpperCase /\ \A i \in 2..8 : t[i] \in Digits

EmailLocalChars == Letters \cup Digits \cup {".", "_", "%", "+", "-"}
EmailDomainChars == Letters \cup Digits \cup {".", "-"}

\* [A-Za-z0-9._%+-]+@[A-Za-z0-9.-]+\.[A-Za-z]{2,}
email_re(t) ==
    \E a \in 1..Len(t), k \in 1..Len(t) :
        /\ t[a] = "@"
        /\ a > 1
        /\ \A i \in 1..(a - 1) : t[i] \in EmailLocalChars
        /\ k > a + 1
        /\ t[k] = "."
        /\ \A i \in (a + 1)..(k - 1) : t[i] \in EmailDomainChars
        /\ Len(t) - k >= 2
        /\ \A i \in (k + 1)..Len(t) : t[i] \in Letters

upi_domains == {
    <<"a", "b", "c", "d", "i", "c", "i", "c", "i">>, <<"a", "p", "l">>, <<"y", "a", "p", "l">>, <<"r", "a", "p", "l">>,
    <<"a", "b", "f", "s", "p", "a", "y">>, <<"b", "p", "u", "n", "i", "t", "y">>, <<"j", "a", "r", "u", "n", "i", "t", "y">>, <<"a", "x", "i", "s", "b">>,
    <<"y", "e", "s", "c", "r", "e", "d">>, <<"y", "e", "s", "c", "u", "r", "i", "e">>, <<"y", "e", "s", "f", "a", "m">>, <<"f", "i", "f", "e", "d", "e", "r", "a", "l">>,
    <<"f", "k", "a", "x", "i", "s">>, <<"f", "r", "e", "o", "i", "c", "i", "c", "i">>, <<"o", "k", "a", "x", "i", "s">>, <<"o", "k", "h", "d", "f", "c", "b", "a", "n", "k">>,
    <<"o", "k", "i", "c", "i", "c", "i">>, <<"o", "k", "s", "b", "i">>, <<"y", "e", "s", "g">>, <<"i", "n", "h", "d", "f", "c">>,
    <<"j", "u", "p", "i", "t", "e", "r", "a", "x", "i", "s">>, <<"g", "o", "a", "x", "b">>, <<"k", "b", "a", "x", "i", "s">>, <<"k", "p", "h", "d", "f", "c">>,
    <<"i", "k", "w", "i", "k">>, <<"m", "v", "h", "d", "f", "c">>, <<"n", "a", "v", "i", "a", "x", "i", "s">>, <<"n", "i", "y", "o", "i", "c", "i", "c", "i">>,
    <<"o", "n", "e", "y", "e", "s">>, <<"p", "a", "y", "t", "m">>, <<"p", "t", "y", "e", "s">>, <<"p", "t", "a", "x", "i", "s">>,
    <<"p", "t", "h", "d", "f", "c">>, <<"p", "t", "s", "b", "i">>, <<"y", "b", "l">>, <<"i", "b", "l">>,
    <<"a", "x", "l">>, <<"y", "e", "s", "p", "o", "p">>, <<"r", "m", "r", "b", "l">>, <<"p", "i", "n", "g", "p", "a", "y">>,
    <<"s", "e", "y", "e", "s">>, <<"s", "h", "r", "i", "r", "a", "m", "h", "d", "f", "c", "b", "a", "n", "k">>, <<"s", "u", "p", "e", "r", "y", "e", "s">>, <<"t", "a", "p", "i", "c", "i", "c", "i">>,
    <<"t", "i", "m", "e", "c", "o", "s", "m", "o", "s">>, <<"a", "x", "i", "s", "b", "a", "n", "k">>, <<"y", "e", "s", "t", "p">>, <<"i", "d", "f", "c", "b", "a", "n", "k">>,
    <<"w", "a", "i", "c", "i", "c", "i">>, <<"i", "c", "i", "c", "i">>, <<"w", "a", "a", "x", "i", "s">>, <<"w", "a", "h", "d", "f", "c", "b", "a", "n", "k">>,
    <<"w", "a", "s", "b", "i">>
}

NameFields == {"name", "first_name", "last_name"}
EmailFields == {"email"}
AddressFields == {"address", "city", "pin_code", "state"}

\* dict.get(field): None when the key is missing
Get(record, field) ==
    IF field \in DOMAIN record THEN record[field] ELSE NoneV

\* ------------------------------------------------------------------------
\* PersonalInfoFinder
\* ------------------------------------------------------------------------
\* one iteration of the loop of check_single on a truthy value: the branch
\* that writes True ("phone", "aadhar", "passport", "email", "upi"), "false"
\* for the else branch, "omitted" when "@" is in the text and no entry is
\* written
SingleBranch(field, value) ==
    LET text == Strip(Str(value))
    IN  IF field = "phone" \/ phone_re(text) THEN "phone"
        ELSE IF field = "aadhar" \/ aadhar_re(text) THEN "aadhar"
        ELSE IF field = "passport" \/ passport_re(text) THEN "passport"
        ELSE IF field = "email" \/ email_re(text) THEN "email"
        ELSE IF AtPositions(text) # {}
             THEN IF /\ Cardinality(AtPositions(text)) = 1
                     /\ Lower(SubSeq(text, FirstAt(text) + 1, Len(text)))
                            \in upi_domains
                  THEN "upi"
                  ELSE "omitted"
        ELSE "false"

check_single(record) ==
    LET written == {f \in DOMAIN record :
                       Truthy(record[f]) /\ SingleBranch(f, record[f]) # "omitted"}
    IN  [f \in written |-> SingleBranch(f, record[f]) # "false"]

is_full_name(name) ==
    LET parts == Strip(Str(name))
    IN  /\ TokenCount(parts) >= 2
        /\ \A i \in 1..Len(parts) :
              parts[i] \in Whitespace \/ parts[i] \in Letters

has_both_names(record) ==
    Truthy(Get(record, "first_name")) /\ Truthy(Get(record, "last_name"))

is_full_address(record) ==
    Cardinality({f \in {"address", "city", "pin_code"} :
                    Truthy(Get(record, f))}) >= 2

\* the groups collected by the loop of check_combined
CombinedGroups(record) ==
    LET seen == {f \in DOMAIN record :
                    Truthy(record[f]) /\ Strip(Str(record[f])) # << >>}
    IN  {g \in {"name", "email", "address"} :
            \E f \in seen :
               \/ /\ g = "name"
                  /\ f \in NameFields
                  /\ \/ f = "name" /\ is_full_name(record[f])
                     \/ /\ ~(f = "name" /\ is_full_name(record[f]))
                        /\ f \in {"first_name", "last_name"}
                        /\ has_both_names(record)
               \/ /\ g = "email"
                  /\ f \in EmailFields
                  /\ email_re(Str(record[f]))
               \/ /\ g = "address"
                  /\ f \in AddressFields
                  /\ is_full_address(record)}

check_combined(record) == Cardinality(CombinedGroups(record)) >= 2

detect_pii(record) ==
    IF \E f \in DOMAIN check_single(record) : check_single(record)[f]
    THEN TRUE
    ELSE check_combined(record)

\* ------------------------------------------------------------------------
\* PersonalInfoHider
\* ------------------------------------------------------------------------
\* user[:2] + "X" * (len(user) - 2) + "@" + domain, split at the first "@"
MaskUser(text) ==
    LET user == SubSeq(text, 1, FirstAt(text) - 1)
        domain == SubSeq(text, FirstAt(text) + 1, Len(text))
    IN  Prefix(user, 2) \o Repeat("X", Len(user) - 2) \o <<"@">> \o domain

\* hide_value with the last line returning the trimmed text instead of the
\* value it was given
hide_value_returns_text(field, value) ==
    IF ~Truthy(value) THEN value
    ELSE
    LET text == Strip(Str(value))
    IN  IF field = "phone" \/ phone_re(text)
        THEN StrV(Prefix(text, 2) \o Repeat("X", Len(text) - 4) \o Suffix(text, 2))
        ELSE IF field = "aadhar" \/ aadhar_re(text)
        THEN StrV(<<"X", "X", "X", "X", " ", "X", "X", "X", "X", " ">> \o Suffix(text, 4))
        ELSE IF field = "passport"
        THEN StrV(<<"X", "X", "X", "X", "X", "X", "X">>)
        ELSE IF email_re(text)
        THEN StrV(MaskUser(text))
        ELSE IF /\ AtPositions(text) # {}
                /\ Lower(SubSeq(text, FirstAt(text) + 1, Len(text))) \in upi_domains
        THEN StrV(MaskUser(text))
        ELSE IF field \in NameFields
        THEN IF text = << >> THEN IndexError
             ELSE StrV(<< text[1] >> \o Repeat("X", Len(text) - 1))
        ELSE IF field \in AddressFields
        THEN StrV(<<"[", "R", "E", "D", "A", "C", "T", "E", "D", "_", "A", "D", "D", "R", "E", "S", "S", "]">>)
        ELSE StrV(text)

\* hide_value with a passport mask derived from the text ("X" for every
\* digit) instead of the fixed placeholder
hide_value_passport_by_length(field, value) ==
    IF ~Truthy(value) THEN value
    ELSE
    LET text == Strip(Str(value))
    IN  IF field = "phone" \/ phone_re(text)
        THEN StrV(Prefix(text, 2) \o Repeat("X", Len(text) - 4) \o Suffix(text, 2))
        ELSE IF field = "aadhar" \/ aadhar_re(text)
        THEN StrV(<<"X", "X", "X", "X", " ", "X", "X", "X", "X", " ">> \o Suffix(text, 4))
        ELSE IF field = "passport"
        THEN StrV(Repeat("X", Len(text) - 1))
        ELSE IF email_re(text)
        THEN StrV(MaskUser(text))
        ELSE IF /\ AtPositions(text) # {}
                /\ Lower(SubSeq(text, FirstAt(text) + 1, Len(text))) \in upi_domains
        THEN StrV(MaskUser(text))
        ELSE IF field \in NameFields
        THEN IF text = << >> THEN IndexError
             ELSE StrV(<< text[1] >> \o Repeat("X", Len(text) - 1))
        ELSE IF field \in AddressFields
        THEN StrV(<<"[", "R", "E", "D", "A", "C", "T", "E", "D", "_", "A", "D", "D", "R", "E", "S", "S", "]">>)
        ELSE value

hide_value(field, value) ==
    IF ~Truthy(value) THEN value
    ELSE
    LET text == Strip(Str(value))
    IN  IF field = "phone" \/ phone_re(text)
        THEN StrV(Prefix(text, 2) \o Repeat("X", Len(text) - 4) \o Suffix(text, 2))
        ELSE IF field = "aadhar" \/ aadhar_re(text)
        THEN StrV(<<"X", "X", "X", "X", " ", "X", "X", "X", "X", " ">> \o Suffix(text, 4))
        ELSE IF field = "passport"
        THEN StrV(<<"X", "X", "X", "X", "X", "X", "X">>)
        ELSE IF email_re(text)
        THEN StrV(MaskUser(text))
        ELSE IF /\ AtPositions(text) # {}
                /\ Lower(SubSeq(text, FirstAt(text) + 1, Len(text))) \in upi_domains
        THEN StrV(MaskUser(text))
        ELSE IF field \in NameFields
        THEN IF text = << >> THEN IndexError
             ELSE StrV(<< text[1] >> \o Repeat("X", Len(text) - 1))
        ELSE IF field \in AddressFields
        THEN StrV(<<"[", "R", "E", "D", "A", "C", "T", "E", "D", "_", "A", "D", "D", "R", "E", "S", "S", "]">>)
        ELSE value

\* the dict built by hide_record; an entry IndexError marks the call of
\* hide_value that raised
hide_record(record, has_pii) ==
    IF ~has_pii THEN record
    ELSE
    LET single_flags == check_single(record)
        combined == check_combined(record)
    IN  [f \in DOMAIN record |->
            IF (f \in DOMAIN single_flags /\ single_flags[f]) \/ combined
            THEN hide_value(f, record[f])
            ELSE record[f]]

Raised(out) == \E f \in DOMAIN out : out[f] = IndexError

\* ------------------------------------------------------------------------
\* sol1.2.py : PIIDetector patterns (used with search)
\* ------------------------------------------------------------------------
IsWordAt(t, p) == p >= 1 /\ p <= Len(t) /\ t[p] \in WordChars

\* \b between positions p and p + 1
Boundary(t, p) == IsWordAt(t, p) # IsWordAt(t, p + 1)

AllIn(t, i, j, cls) == \A x \in i..j : t[x] \in cls

\* \b\d{10}\b
phone_pattern(t) ==
    \E i \in 1..(Len(t) - 9) :
        AllIn(t, i, i + 9, Digits) /\ Boundary(t, i - 1) /\ Boundary(t, i + 9)

\* \b\d{4}\s*\d{4}\s*\d{4}\b
aadhar_pattern(t) ==
    \E i \in 1..(Len(t) - 11), a \in 0..Len(t), b \in 0..Len(t) :
        /\ i + 11 + a + b <= Len(t)
        /\ AllIn(t, i, i + 3, Digits)
        /\ AllIn(t, i + 4, i + 3 + a, Whitespace)
        /\ AllIn(t, i + 4 + a, i + 7 + a, Digits)
        /\ AllIn(t, i + 8 + a, i + 7 + a + b, Whitespace)
        /\ AllIn(t, i + 8 + a + b, i + 11 + a + b, Digits)
        /\ Boundary(t, i - 1)
        /\ Boundary(t, i + 11 + a + b)

\* \b[A-Z]\d{7}\b
passport_pattern(t) ==
    \E i \in 1..(Len(t) - 7) :
        /\ t[i] \in UpperCase
        /\ AllIn(t, i + 1, i + 7, Digits)
        /\ Boundary(t, i - 1)
        /\ Boundary(t, i + 7)

\* \b[\w\d]+@[\w\d]+\b
upi_pattern(t) ==
    \E a \in AtPositions(t), i \in 1..Len(t), j \in 1..Len(t) :
        /\ i < a
        /\ a < j
        /\ AllIn(t, i, a - 1, WordChars)
        /\ AllIn(t, a + 1, j, WordChars)
        /\ Boundary(t, i - 1)
        /\ Boundary(t, j)

\* \b[A-Za-z0-9._%+-]+@[A-Za-z0-9.-]+\.[A-Z|a-z]{2,}\b
email_pattern(t) ==
    \E a \in AtPositions(t), k \in 1..Len(t), i \in 1..Len(t), j \in 1..Len(t) :
        /\ i < a
        /\ a + 1 < k
        /\ k + 2 <= j
        /\ t[k] = "."
        /\ AllIn(t, i, a - 1, EmailLocalChars)
        /\ AllIn(t, a + 1, k - 1, EmailDomainChars)
        /\ AllIn(t, k + 1, j, Letters \cup {"|"})
        /\ Boundary(t, i - 1)
        /\ Boundary(t, j)

\* PIIDetector.detect_standalone_pii
detect_standalone_pii(data) ==
    [f \in {g \in DOMAIN data : data[g].t # "none"} |->
        LET value_str == Str(data[f])
        IN  \/ f = "phone" \/ phone_pattern(value_str)
            \/ f = "aadhar" \/ aadhar_pattern(value_str)
            \/ f = "passport" \/ passport_pattern(value_str)
            \/ f = "upi_id"
            \/ (upi_pattern(value_str) /\ AtPositions(value_str) # {})]

\* parts[1] of value_str.split('@'): the text between the first "@" and the
\* next one (or the end)
SecondPart(t) ==
    LET later == {i \in AtPositions(t) : i > FirstAt(t)}
        stop == IF later = {} THEN Len(t) + 1
                ELSE CHOOSE i \in later : \A j \in later : i <= j
    IN  SubSeq(t, FirstAt(t) + 1, stop - 1)

\* PIIRedactor.redact_value
redact_value(field, value) ==
    IF value.t = "none" THEN value
    ELSE
    LET value_str == Str(value)
        user == SubSeq(value_str, 1, FirstAt(value_str) - 1)
    IN  IF field = "phone" \/ phone_pattern(value_str)
        THEN IF Len(value_str) >= 10
             THEN StrV(Prefix(value_str, 2) \o Repeat("X", Len(value_str) - 4)
                        \o Suffix(value_str, 2))
             ELSE value
        ELSE IF AtPositions(value_str) # {} /\ email_pattern(value_str)
        THEN IF Len(user) > 2
             THEN StrV(Prefix(user, 2) \o Repeat("X", Len(user) - 2) \o <<"@">>
                        \o SecondPart(value_str))
             ELSE value
        ELSE IF field \in {"name", "first_name", "last_name"}
        THEN IF Len(value_str) > 1
             THEN StrV(<< value_str[1] >> \o Repeat("X", Len(value_str) - 1))
             ELSE value
        ELSE IF field = "address" THEN StrV(<<"[", "R", "E", "D", "A", "C", "T", "E", "D", "_", "A", "D", "D", "R", "E", "S", "S", "]">>)
        ELSE IF field = "aadhar" THEN StrV(<<"[", "R", "E", "D", "A", "C", "T", "E", "D", "_", "A", "A", "D", "H", "A", "R", "]">>)
        ELSE IF field = "passport" THEN StrV(<<"[", "R", "E", "D", "A", "C", "T", "E", "D", "_", "P", "A", "S", "S", "P", "O", "R", "T", "]">>)
        ELSE IF field = "upi_id" THEN StrV(<<"[", "R", "E", "D", "A", "C", "T", "E", "D", "_", "U", "P", "I", "]">>)
        ELSE value

\* ------------------------------------------------------------------------
\* Input records
\* ------------------------------------------------------------------------
FieldNames == {"phone", "aadhar", "passport", "email", "upi_id", "name",
               "first_name", "last_name", "address", "city", "pin_code",
               "state", "note"}

FieldValues(f) ==
    CASE f = "phone"      -> {StrV(<<"9", "8", "7", "6", "5", "4", "3", "2", "1", "0">>), StrV(<<"1", "2", "3">>), StrV(<<" ">>)}
      [] f = "aadhar"     -> {StrV(<<"1", "2", "3", "4", " ", "5", "6", "7", "8", " ", "9", "0", "1", "2">>), StrV(<<"1", "2">>)}
      [] f = "passport"   -> {StrV(<<"A", "1", "2", "3", "4", "5", "6", "7">>), StrV(<<" ">>)}
      [] f = "email"      -> {StrV(<<"j", "o", "h", "n", "@", "x", ".", "c", "o">>), StrV(<<" ", "a", "b", "@", "x", ".", "c", "o", " ">>), StrV(<<"m", "e", "@", "y", "b", "l">>)}
      [] f = "upi_id"     -> {StrV(<<"m", "e", "@", "y", "b", "l">>), StrV(<<"a", "b", "c">>)}
      [] f = "name"       -> {StrV(<<"A", "l", " ", "B", "o">>), StrV(<<"A", "l">>), StrV(<<" ">>)}
      [] f = "first_name" -> {StrV(<<"A", "l">>), StrV(<<>>)}
      [] f = "last_name"  -> {StrV(<<"B", "o">>), StrV(<<" ">>)}
      [] f = "address"    -> {StrV(<<"1", "2", " ", "E", "l", "m">>), StrV(<<" ">>)}
      [] f = "city"       -> {StrV(<<"P", "u", "n", "e">>), StrV(<<"A", "1", "2", "3", "4", "5", "6", "7">>)}
      [] f = "pin_code"   -> {IntV(560001), StrV(<<" ">>)}
      [] f = "state"      -> {StrV(<<"K", "A">>), NoneV}
      [] OTHER            -> {StrV(<<"A", "1", "2", "3", "4", "5", "6", "7">>), StrV(<<"a", "@", "b">>), StrV(<<"a", "@", "b", "@", "y", "b", "l">>),
                              StrV(<<" ", "h", "i", " ">>), StrV(<<"1", "2", "3", "4", "5", "6", "7", "8", "9", "0">>), StrV(<<"M", "e", "@", "Y", "B", "L">>)}

EmptyRecord == [f \in {} |-> NoneV]

RECURSIVE RecordsOver(_)
RecordsOver(F) ==
    IF F = {} THEN {EmptyRecord}
    ELSE LET f == CHOOSE x \in F : TRUE
         IN  {(f :> v) @@ r : v \in FieldValues(f), r \in RecordsOver(F \ {f})}

Records ==
    UNION {RecordsOver(F) :
              F \in {G \in SUBSET FieldNames : Cardinality(G) <= MaxFields}}

\* ------------------------------------------------------------------------
\* State: one record (data) handed to the engine, as process_file does per
\* row, and the values returned by the calls made on it
\* ------------------------------------------------------------------------
VARIABLES
    record,        \* the dict passed to every call
    pc,            \* which call has returned
    has_pii,       \* the flag passed to hide_record
    flags,         \* result of check_single
    combined,      \* result of check_combined
    hidden,        \* result of hide_record(record, has_pii)
    again,         \* result of hide_record(hidden, True)
    masks,         \* results of hide_value, per field
    legacy_flags,  \* result of detect_standalone_pii (sol1.2.py)
    legacy_masks   \* results of redact_value, per field (sol1.2.py)

vars == << record, pc, has_pii, flags, combined, hidden, again, masks,
           legacy_flags, legacy_masks >>

EmptyFlags == [f \in {} |-> FALSE]

Init ==
    /\ record \in Records
    /\ pc = "loaded"
    /\ has_pii = FALSE
    /\ flags = EmptyFlags
    /\ combined = FALSE
    /\ hidden = EmptyRecord
    /\ again = EmptyRecord
    /\ masks = EmptyRecord
    /\ legacy_flags = EmptyFlags
    /\ legacy_masks = EmptyRecord

\* found = finder.check_single(record)
CheckSingle ==
    /\ pc = "loaded"
    /\ flags' = check_single(record)
    /\ pc' = "checked_single"
    /\ UNCHANGED << record, has_pii, combined, hidden, again, masks,
                    legacy_flags, legacy_masks >>

\* finder.check_combined(record)
CheckCombined ==
    /\ pc = "loaded"
    /\ combined' = check_combined(record)
    /\ pc' = "checked_combined"
    /\ UNCHANGED << record, has_pii, flags, hidden, again, masks,
                    legacy_flags, legacy_masks >>

\* has_pii = finder.detect_pii(data)
DetectPii ==
    /\ pc = "loaded"
    /\ has_pii' = detect_pii(record)
    /\ pc' = "detected"
    /\ UNCHANGED << record, flags, combined, hidden, again, masks,
                    legacy_flags, legacy_masks >>

\* hidden = hider.hide_record(data, has_pii); an exception skips the row
HideDetected ==
    /\ pc = "detected"
    /\ LET out == hide_record(record, has_pii)
       IN  IF Raised(out)
           THEN pc' = "failed" /\ hidden' = hidden
           ELSE pc' = "hidden" /\ hidden' = out
    /\ UNCHANGED << record, has_pii, flags, combined, again, masks,
                    legacy_flags, legacy_masks >>

\* hide_record writing the masked values into the dict it was given
RedactInPlace(isPii) ==
    /\ pc = "loaded"
    /\ has_pii' = isPii
    /\ LET out == hide_record(record, isPii)
       IN  IF Raised(out)
           THEN pc' = "failed" /\ hidden' = hidden /\ record' = record
           ELSE pc' = "hidden" /\ hidden' = out /\ record' = out
    /\ UNCHANGED << flags, combined, again, masks, legacy_flags, legacy_masks >>

\* hide_record called with a flag chosen by the caller
Redact(isPii) ==
    /\ pc = "loaded"
    /\ has_pii' = isPii
    /\ LET out == hide_record(record, isPii)
       IN  IF Raised(out)
           THEN pc' = "failed" /\ hidden' = hidden
           ELSE pc' = "hidden" /\ hidden' = out
    /\ UNCHANGED << record, flags, combined, again, masks,
                    legacy_flags, legacy_masks >>

\* hide_record called on its own result, with has_pii = True
RedactAgain ==
    /\ pc = "hidden"
    /\ has_pii
    /\ LET out == hide_record(hidden, TRUE)
       IN  IF Raised(out)
           THEN pc' = "failed_again" /\ again' = again
           ELSE pc' = "hidden_again" /\ again' = out
    /\ UNCHANGED << record, has_pii, flags, combined, hidden, masks,
                    legacy_flags, legacy_masks >>

\* hide_value called on every (field, value) of the record
HideValues ==
    /\ pc = "loaded"
    /\ masks' = [f \in DOMAIN record |-> hide_value(f, record[f])]
    /\ pc' = "masked"
    /\ UNCHANGED << record, has_pii, flags, combined, hidden, again,
                    legacy_flags, legacy_masks >>

\* sol1.2.py: detector.detect_standalone_pii(data)
DetectStandalonePii ==
    /\ pc = "loaded"
    /\ legacy_flags' = detect_standalone_pii(record)
    /\ pc' = "legacy_checked"
    /\ UNCHANGED << record, has_pii, flags, combined, hidden, again, masks,
                    legacy_masks >>

\* sol1.2.py: redact_value called on every (field, value) of the record
RedactValues ==
    /\ pc = "loaded"
    /\ legacy_masks' = [f \in DOMAIN record |-> redact_value(f, record[f])]
    /\ pc' = "legacy_masked"
    /\ UNCHANGED << record, has_pii, flags, combined, hidden, again, masks,
                    legacy_flags >>

Next ==
    \/ CheckSingle
    \/ CheckCombined
    \/ DetectPii
    \/ HideDetected
    \/ \E isPii \in BOOLEAN : Redact(isPii)
    \/ RedactAgain
    \/ HideValues
    \/ DetectStandalonePii
    \/ RedactValues

Spec == Init /\ [][Next]_vars

\* ------------------------------------------------------------------------
\* Properties
\* ------------------------------------------------------------------------
Flagged(f) == f \in DOMAIN flags /\ flags[f]

\* absent, null, empty, or blank after trimming
Blank(v) == v.t = "none" \/ (v.t = "str" /\ Strip(v.s) = << >>)

\* C1: a field whose value is absent, null, empty or blank after trimming
\* never gets a true standalone verdict from check_single, whatever its name,
\* and a record whose values are all blank is never classified as PII by
\* detect_pii.
C1_BlankNeverFlagged ==
    /\ pc = "checked_single" =>
          \A f \in DOMAIN record : Blank(record[f]) => ~Flagged(f)
    /\ (pc = "detected" /\ \A f \in DOMAIN record : Blank(record[f])) =>
          ~has_pii

\* C2: hide_record, and hide_value on any field and value, return a result
\* and never raise, also for 1-character and whitespace-only values.
C2_RedactNeverRaises ==
    /\ pc # "failed"
    /\ pc = "masked" => \A f \in DOMAIN masks : masks[f] # IndexError

\* C3: with isPii = true every field whose standalone verdict is true is
\* replaced by the mask of the kind that flagged it (the first of phone,
\* national ID, passport, email, payment handle whose name trigger or value
\* pattern matched): a passport-flagged value becomes XXXXXXX, a national-ID
\* value becomes "XXXX XXXX " followed by its last 4 characters.
C3_FlaggedFieldGetsKindMask ==
    (pc = "hidden" /\ has_pii) =>
        \A f \in DOMAIN record :
            LET text == Strip(Str(record[f]))
                kind == SingleBranch(f, record[f])
            IN  Truthy(record[f]) =>
                /\ kind = "phone" =>
                      hidden[f] = StrV(Prefix(text, 2)
                                        \o Repeat("X", Len(text) - 4)
                                        \o Suffix(text, 2))
                /\ kind = "aadhar" =>
                      hidden[f] = StrV(<<"X", "X", "X", "X", " ", "X", "X", "X", "X", " ">> \o Suffix(text, 4))
                /\ kind = "passport" => hidden[f] = StrV(<<"X", "X", "X", "X", "X", "X", "X">>)
                /\ (kind \in {"email", "upi"} /\ AtPositions(text) # {}) =>
                      hidden[f] = StrV(MaskUser(text))

\* C4: check_combined returns true iff at least two of the groups name,
\* email, address are satisfied, where name needs a full name in "name" or
\* first_name and last_name both non-blank after trimming, email needs a
\* value of "email" fully matching the email grammar, and address needs at
\* least 2 of address, city, pin_code non-blank after trimming.
C4_CombinedIffTwoGroups ==
    pc = "checked_combined" =>
        LET nonblank(f) == f \in DOMAIN record /\ ~Blank(record[f])
            name_ok == \/ nonblank("name") /\ is_full_name(record["name"])
                       \/ nonblank("first_name") /\ nonblank("last_name")
            email_ok == nonblank("email") /\ email_re(Str(record["email"]))
            address_ok == Cardinality({f \in {"address", "city", "pin_code"} :
                                          nonblank(f)}) >= 2
            count == Cardinality({g \in {1, 2, 3} :
                                     \/ g = 1 /\ name_ok
                                     \/ g = 2 /\ email_ok
                                     \/ g = 3 /\ address_ok})
        IN  combined = (count >= 2)

\* C5: the phone mask is length-preserving for every input: the result has
\* the length of the trimmed input, its first 2 and last 2 characters, and
\* only "X" in between; inputs shorter than 4 characters do not get longer.
C5_PhoneMaskKeepsLength ==
    pc = "masked" =>
        \A f \in DOMAIN record :
            LET text == Strip(Str(record[f]))
                out == masks[f].s
            IN  (Truthy(record[f]) /\ (f = "phone" \/ phone_re(text))) =>
                /\ Len(out) = Len(text)
                /\ Prefix(out, 2) = Prefix(text, 2)
                /\ Suffix(out, 2) = Suffix(text, 2)
                /\ \A i \in 3..(Len(out) - 2) : out[i] = "X"

\* C6: a field named upi_id with a non-empty value always gets a true
\* standalone verdict, whatever its value, hence detect returns true for
\* every record with a non-empty upi_id field.
C6_UpiIdAlwaysFlagged ==
    LET has_upi == /\ "upi_id" \in DOMAIN record
                   /\ record["upi_id"].t = "str"
                   /\ record["upi_id"].s # << >>
    IN  /\ (pc = "checked_single" /\ has_upi) => Flagged("upi_id")
        /\ (pc = "detected" /\ has_upi) => has_pii

\* C7: the map returned by check_single has an entry for every field whose
\* value is non-empty, true when a kind rule matched and false otherwise; a
\* value with "@" that is neither an email nor a payment handle is recorded
\* as false.
C7_EveryEvaluatedFieldHasEntry ==
    pc = "checked_single" =>
        \A f \in DOMAIN record :
            Truthy(record[f]) =>
                /\ f \in DOMAIN flags
                /\ flags[f] = (SingleBranch(f, record[f])
                                  \in {"phone", "aadhar", "passport", "email", "upi"})

\* C8: neither detect_pii nor hide_record changes the record passed to it,
\* with either value of isPii, and hide_record with isPii = false returns
\* the record with every value unchanged.
C8_ArgumentNeverMutated ==
    [][/\ record' = record
       /\ (pc' = "hidden" /\ ~has_pii') => hidden' = record]_vars

C8_Witness ==
    /\ pc = "hidden"
    /\ has_pii
    /\ Cardinality(DOMAIN record) >= 2
    /\ \A f \in DOMAIN record : hidden[f] # record[f]

\* C9: with isPii = true, the result of hide_record keeps the value of every
\* field whose standalone verdict is not true and that either is not a
\* name/email/address family field or belongs to a record failing the
\* combinatorial check; also when the combinatorial check passes and
\* hide_value is called on every field.
C9_UnflaggedFieldUnchanged ==
    (pc = "hidden" /\ has_pii) =>
        \A f \in DOMAIN record :
            LET single_flags == check_single(record)
                verdict == f \in DOMAIN single_flags /\ single_flags[f]
                family == f \in NameFields \cup EmailFields \cup AddressFields
            IN  (~verdict /\ (~family \/ ~check_combined(record))) =>
                    hidden[f] = record[f]

C9_Witness ==
    /\ pc = "hidden"
    /\ has_pii
    /\ check_combined(record)
    /\ \E f \in DOMAIN record :
          /\ f \notin NameFields \cup EmailFields \cup AddressFields
          /\ Truthy(record[f])
          /\ f \notin DOMAIN check_single(record)
          /\ hidden[f] = record[f]
    /\ \E f \in DOMAIN record : hidden[f] # record[f]

\* C10: in the result of hide_record applied to its own result (isPii =
\* true both times), every passport field holding XXXXXXX and every
\* address-family field holding the address placeholder keeps its value.
C10_PlaceholdersStable ==
    pc = "hidden_again" =>
        \A f \in DOMAIN hidden :
            (\/ f = "passport" /\ hidden[f] = StrV(<<"X", "X", "X", "X", "X", "X", "X">>)
             \/ f \in AddressFields /\ hidden[f] = StrV(<<"[", "R", "E", "D", "A", "C", "T", "E", "D", "_", "A", "D", "D", "R", "E", "S", "S", "]">>)) =>
                again[f] = hidden[f]

C10_Witness ==
    /\ pc = "hidden_again"
    /\ "passport" \in DOMAIN record
    /\ record["passport"] # StrV(<<"X", "X", "X", "X", "X", "X", "X">>)
    /\ again["passport"] = StrV(<<"X", "X", "X", "X", "X", "X", "X">>)
    /\ \E f \in AddressFields \cap DOMAIN record :
          /\ record[f] # StrV(<<"[", "R", "E", "D", "A", "C", "T", "E", "D", "_", "A", "D", "D", "R", "E", "S", "S", "]">>)
          /\ again[f] = StrV(<<"[", "R", "E", "D", "A", "C", "T", "E", "D", "_", "A", "D", "D", "R", "E", "S", "S", "]">>)

\* C11: detection and redaction agree: for every record on which detect_pii
\* returns true, the record returned by hide_record(record, True) differs
\* from the record in at least one field value.
C11_DetectedRecordIsChanged ==
    (pc = "hidden" /\ has_pii /\ detect_pii(record)) =>
        \E f \in DOMAIN record : hidden[f] # record[f]

====
